---- MODULE Spec2Model ----
(***************************************************************************)
(* Triangle counting on WebGPU: the host script main.js (file picker, CSR  *)
(* construction, buffer upload, dispatch, read-back) and the compute       *)
(* shader compute.wgsl (one invocation per vertex, merge-join of sorted    *)
(* neighbour lists, atomic counter).                                       *)
(*                                                                         *)
(* JavaScript typed arrays and WGSL storage arrays are 0-based; they are   *)
(* kept as TLA+ sequences and read through At(arr, i) == arr[i + 1].       *)
(***************************************************************************)
EXTENDS Integers, Sequences, FiniteSets, TLC

(***************************************************************************)
(* Bounds of the model.                                                    *)
(***************************************************************************)
\* longest enumerated input file, in edge records
MaxRecs == 2
\* number of nodes of the enumerated graphs
MaxNodes == 3
\* number of distinct external node ids the enumerated records draw from
NumIds == 3
\* invocations per workgroup; the program uses 256 (main.js:230,
\* compute.wgsl:36), scaled down so that the rounded-up grid stays small
workgroupSize == 2
\* bits of the atomic counter; the program uses 32 (compute.wgsl:11), scaled
\* down to a width that no graph within the bounds can overflow
CounterBits == 8
\* bits of the counter in the narrow-counter specification, where a graph
\* within the bounds does overflow it
NarrowBits == 2
\* largest workgroup size the grid is re-rounded to
MaxBatch == 3

(***************************************************************************)
(* Input files.  A file is a sequence of lines; a line is blank, a comment *)
(* (starts with '#') or data, and a data line carries its first two        *)
(* whitespace-delimited fields.  A field is described by what parseInt     *)
(* sees: whether it starts with an (optionally signed) integer, the value  *)
(* of that integer and whether other characters follow it.                 *)
(***************************************************************************)
IntField(n) == [hasInt |-> TRUE, int |-> n, tail |-> FALSE]
DataLine(a, b) == [kind |-> "data", u_str |-> IntField(a), v_str |-> IntField(b)]
CommentLine == [kind |-> "comment", u_str |-> IntField(0), v_str |-> IntField(0)]
BlankLine == [kind |-> "blank", u_str |-> IntField(0), v_str |-> IntField(0)]

\* fields that are not integers: one that is absent (the line has a single
\* field), text with no leading integer ("abc"), and an integer followed by
\* other characters ("1.5", "12abc")
MissingField == [hasInt |-> FALSE, int |-> 0, tail |-> FALSE]
TextField == [hasInt |-> FALSE, int |-> 0, tail |-> TRUE]
PrefixField(n) == [hasInt |-> TRUE, int |-> n, tail |-> TRUE]

\* external node ids are sparse and may be negative: -1, 2, 5, 8, ...
ExtId(k) == 3 * k - 4
ExtIds == {ExtId(k) : k \in 1..NumIds}
EdgeRecords == {DataLine(a, b) : a \in ExtIds, b \in ExtIds}

\* the records whose first two fields are not both integers
FirstFields == {IntField(a) : a \in ExtIds} \cup {PrefixField(a) : a \in ExtIds}
                   \cup {TextField}
SecondFields == FirstFields \cup {MissingField}
MalformedRecords ==
    {[kind |-> "data", u_str |-> f1, v_str |-> f2] :
        f1 \in FirstFields, f2 \in SecondFields} \ EdgeRecords

RECURSIVE ListsUpTo(_, _)
ListsUpTo(S, n) ==
    IF n = 0 THEN {<<>>}
    ELSE LET shorter == ListsUpTo(S, n - 1)
         IN  shorter \cup {Append(l, x) : l \in {s \in shorter : Len(s) = n - 1}, x \in S}

\* every undirected graph on the first MaxNodes external ids, written as a
\* file: one record per edge, the edges from the last pair to the first and
\* every other one with its endpoints swapped
NodePairs == {<<a, b>> \in (1..MaxNodes) \X (1..MaxNodes) : a < b}
RECURSIVE EdgeLines(_)
EdgeLines(E) ==
    IF E = {} THEN <<>>
    ELSE LET e == CHOOSE x \in E : \A y \in E : x[1] > y[1] \/ (x[1] = y[1] /\ x[2] >= y[2])
             line == IF (e[1] + e[2]) % 2 = 0
                     THEN DataLine(ExtId(e[1]), ExtId(e[2]))
                     ELSE DataLine(ExtId(e[2]), ExtId(e[1]))
         IN  <<line>> \o EdgeLines(E \ {e})
GraphFiles == {EdgeLines(E) : E \in SUBSET NodePairs}

\* the graphs the specification's test list names
EmptyFile == <<>>
PathFile == <<CommentLine, DataLine(0, 1), DataLine(1, 2), BlankLine, DataLine(2, 3)>>
TriangleFile == <<DataLine(0, 1), DataLine(1, 2), DataLine(0, 2)>>
K4File ==
    <<DataLine(0, 1), DataLine(0, 2), DataLine(0, 3),
      DataLine(1, 2), DataLine(1, 3), DataLine(2, 3)>>
TwoTrianglesFile ==
    <<DataLine(0, 1), DataLine(1, 2), DataLine(0, 2),
      DataLine(10, 11), DataLine(11, 12), DataLine(10, 12)>>
\* a triangle given out of order, with a repeated, a swapped and a self-loop record
NoisyTriangleFile ==
    <<DataLine(7, 4), DataLine(9, 9), DataLine(4, 9), DataLine(4, 7),
      DataLine(9, 7), DataLine(7, 4)>>
SampleFiles ==
    {EmptyFile, PathFile, TriangleFile, K4File, TwoTrianglesFile, NoisyTriangleFile}
\* a file with lines but no record of two integers, and a file whose smallest
\* node occurs in a self-loop only
JunkOnlyFile ==
    <<CommentLine, [kind |-> "data", u_str |-> TextField, v_str |-> IntField(2)],
      [kind |-> "data", u_str |-> IntField(2), v_str |-> MissingField], BlankLine>>
IsolatedFile == <<DataLine(-1, -1), DataLine(2, 5)>>
EdgeCaseFiles == {JunkOnlyFile, IsolatedFile}

(***************************************************************************)
(* parseGraphToCSR (main.js:64-141).                                       *)
(***************************************************************************)
At(arr, i) == arr[i + 1]

\* line 71: lines.filter(line => line.trim() !== '' && !line.startsWith('#'))
KeptLines(lines) == SelectSeq(lines, LAMBDA line : line.kind = "data")

\* parseInt(str, 10): the leading integer of the field, NaN when there is none
ParseIntOrZero(field) == [nan |-> FALSE, val |-> IF field.hasInt THEN field.int ELSE 0]
ParseInt(field) ==
    IF field.hasInt THEN [nan |-> FALSE, val |-> field.int]
    ELSE [nan |-> TRUE, val |-> 0]

\* a JavaScript Set iterates in insertion order and ignores a repeated add
SetAddAlways(s, x) == Append(s, x)
SetAdd(s, x) == IF \E k \in 1..Len(s) : s[k] = x THEN s ELSE Append(s, x)

\* Map.set on a map kept as a function from its keys
MapSet(m, k, v) == [x \in (DOMAIN m) \cup {k} |-> IF x = k THEN v ELSE m[x]]

\* lines 86-87: if (!adj.has(x)) adj.set(x, new Set())
EnsureKey(adj, x) == IF x \in DOMAIN adj THEN adj ELSE MapSet(adj, x, <<>>)

\* lines 89-92: if (u !== v) { adj.get(u).add(v); adj.get(v).add(u); }
AddEdgeOneWay(adj, u, v) ==
    IF u # v THEN MapSet(adj, u, SetAdd(adj[u], v)) ELSE adj
AddEdge(adj, u, v) ==
    IF u # v
    THEN LET a1 == MapSet(adj, u, SetAdd(adj[u], v))
         IN  MapSet(a1, v, SetAdd(a1[v], u))
    ELSE adj

\* lines 76-93: the body of lines.forEach, on the accumulated adj and allNodeIds
AddLine(st, line) ==
    LET u == ParseInt(line.u_str)
        v == ParseInt(line.v_str)
    IN  IF u.nan \/ v.nan THEN st
        ELSE [allNodeIds |-> SetAdd(SetAdd(st.allNodeIds, u.val), v.val),
              adj |-> AddEdge(EnsureKey(EnsureKey(st.adj, u.val), v.val), u.val, v.val)]

RECURSIVE ForEachLine(_, _, _)
ForEachLine(lines, k, st) ==
    IF k > Len(lines) THEN st
    ELSE ForEachLine(lines, k + 1, AddLine(st, lines[k]))

\* Array.prototype.sort((a, b) => a - b)
InsertAsc(x, s) ==
    LET k == Cardinality({j \in 1..Len(s) : s[j] <= x})
    IN  SubSeq(s, 1, k) \o <<x>> \o SubSeq(s, k + 1, Len(s))
RECURSIVE SortAsc(_)
SortAsc(s) ==
    IF s = <<>> THEN <<>>
    ELSE InsertAsc(s[Len(s)], SortAsc(SubSeq(s, 1, Len(s) - 1)))

\* line 96: Array.from(allNodeIds).sort((a, b) => a - b)
UnsortedNodeIds(allNodeIds) == allNodeIds
SortedNodeIds(allNodeIds) == SortAsc(allNodeIds)

\* line 97: new Map(sortedNodeIds.map((id, index) => [id, index]))
NodeMapOneBased(sortedNodeIds) ==
    [id \in {sortedNodeIds[k] : k \in 1..Len(sortedNodeIds)} |->
        CHOOSE k \in 1..Len(sortedNodeIds) : sortedNodeIds[k] = id]
NodeMap(sortedNodeIds) ==
    [id \in {sortedNodeIds[k] : k \in 1..Len(sortedNodeIds)} |->
        (CHOOSE k \in 1..Len(sortedNodeIds) : sortedNodeIds[k] = id) - 1]

\* lines 111-112: Array.from(adj.get(originalId)).sort((a, b) => a - b)
UnsortedNeighbors(set) == set
SortedNeighbors(set) == SortAsc(set)

\* line 113: .map(neighborId => nodeMap.get(neighborId))
RemapIdentity(neighbors, nodeMap) == neighbors
Remap(neighbors, nodeMap) == [k \in 1..Len(neighbors) |-> nodeMap[neighbors[k]]]

\* line 118: currentEdgeIndex += neighbors.length
StuckEdgeIndex(currentEdgeIndex, n) == currentEdgeIndex
NextEdgeIndex(currentEdgeIndex, n) == currentEdgeIndex + n

\* lines 106-121: the loop over the nodes, then rowPtr[numNodes]
RECURSIVE EmitRows(_, _, _, _, _, _)
EmitRows(i, sortedNodeIds, adj, rowPtr, edgeListData, currentEdgeIndex) ==
    IF i >= Len(sortedNodeIds)
    THEN [rowPtr |-> Append(rowPtr, currentEdgeIndex), edgeList |-> edgeListData]
    ELSE LET originalId == At(sortedNodeIds, i)
             neighbors ==
                 IF originalId \in DOMAIN adj
                 THEN Remap(SortedNeighbors(adj[originalId]), NodeMap(sortedNodeIds))
                 ELSE <<>>
         IN  EmitRows(i + 1, sortedNodeIds, adj, Append(rowPtr, currentEdgeIndex),
                      edgeListData \o neighbors,
                      NextEdgeIndex(currentEdgeIndex, Len(neighbors)))

ParseGraphToCSR(lines) ==
    LET st == ForEachLine(KeptLines(lines), 1, [allNodeIds |-> <<>>, adj |-> <<>>])
        sortedNodeIds == SortedNodeIds(st.allNodeIds)
        rows == EmitRows(0, sortedNodeIds, st.adj, <<>>, <<>>, 0)
    IN  [numNodes |-> Len(sortedNodeIds), rowPtr |-> rows.rowPtr,
         edgeList |-> rows.edgeList]

\* lines 74-97: nodeMap as parseGraphToCSR holds it after the lines are read
NodeMapOf(lines) ==
    NodeMap(SortedNodeIds(
        ForEachLine(KeptLines(lines), 1, [allNodeIds |-> <<>>, adj |-> <<>>]).allNodeIds))

(***************************************************************************)
(* The compute shader (compute.wgsl:38-94).  One invocation per global id  *)
(* u; an invocation's private state is its position in main and the values *)
(* of its local variables.  A step of an invocation runs from one          *)
(* loop head to the next, so it performs at most one atomicAdd.            *)
(***************************************************************************)
\* a storage-buffer read; an index past the end (which a well-formed CSR
\* graph never produces) reads as 0
Load(arr, i) == IF i >= 0 /\ i < Len(arr) THEN At(arr, i) ELSE 0

TaskState(pc, i, end_u, ptr_u, ptr_v, end_v) ==
    [pc |-> pc, i |-> i, end_u |-> end_u, ptr_u |-> ptr_u, ptr_v |-> ptr_v,
     end_v |-> end_v]
TaskEntry == TaskState("entry", 0, 0, 0, 0, 0)
TaskRetired == TaskState("retired", 0, 0, 0, 0, 0)

\* line 44: arrayLength(&row_ptr) - 1u
NumNodesOf(row_ptr) == Len(row_ptr) - 1

\* line 47: if (u >= num_nodes) { return; }
OutOfRangeNever(u, num_nodes) == FALSE
OutOfRange(u, num_nodes) == u >= num_nodes

\* line 61: if (v <= u) { continue; }
SkipNeighborNever(v, u) == FALSE
SkipNeighbor(v, u) == v <= u

\* line 72: var ptr_u = i + 1u
MergeStartZero(i) == 0
MergeStartU(i) == i + 1

\* lines 40-53: entry, bounds check, load of u's slice
StepEntry(g, u) ==
    IF OutOfRange(u, NumNodesOf(g.rowPtr)) THEN TaskRetired
    ELSE TaskState("loop", Load(g.rowPtr, u), Load(g.rowPtr, u + 1), 0, 0, 0)

\* lines 56-73: head of the for loop over u's neighbours
StepLoop(g, u, t) ==
    IF ~(t.i < t.end_u) THEN TaskRetired
    ELSE LET v == Load(g.edgeList, t.i)
         IN  IF SkipNeighbor(v, u)
             THEN TaskState("loop", t.i + 1, t.end_u, 0, 0, 0)
             ELSE TaskState("merge", t.i, t.end_u, MergeStartU(t.i),
                            Load(g.rowPtr, v), Load(g.rowPtr, v + 1))

\* lines 75-92: one iteration of the merge-join while loop; add is the number
\* of atomicAdd(&total_triangles, 1u) calls the iteration makes
StepMergeStuck(g, t) ==
    IF ~(t.ptr_u < t.end_u /\ t.ptr_v < t.end_v)
    THEN [t |-> TaskState("loop", t.i + 1, t.end_u, 0, 0, 0), add |-> 0]
    ELSE LET w_from_u == Load(g.edgeList, t.ptr_u)
             w_from_v == Load(g.edgeList, t.ptr_v)
         IN  IF w_from_u = w_from_v
             THEN [t |-> [t EXCEPT !.ptr_u = t.ptr_u + 1, !.ptr_v = t.ptr_v + 1],
                   add |-> 1]
             ELSE IF w_from_u < w_from_v
             THEN [t |-> [t EXCEPT !.ptr_u = t.ptr_u + 1], add |-> 0]
             ELSE [t |-> t, add |-> 0]
StepMerge(g, t) ==
    IF ~(t.ptr_u < t.end_u /\ t.ptr_v < t.end_v)
    THEN [t |-> TaskState("loop", t.i + 1, t.end_u, 0, 0, 0), add |-> 0]
    ELSE LET w_from_u == Load(g.edgeList, t.ptr_u)
             w_from_v == Load(g.edgeList, t.ptr_v)
         IN  IF w_from_u = w_from_v
             THEN [t |-> [t EXCEPT !.ptr_u = t.ptr_u + 1, !.ptr_v = t.ptr_v + 1],
                   add |-> 1]
             ELSE IF w_from_u < w_from_v
             THEN [t |-> [t EXCEPT !.ptr_u = t.ptr_u + 1], add |-> 0]
             ELSE [t |-> [t EXCEPT !.ptr_v = t.ptr_v + 1], add |-> 0]

TaskStep(g, u, t) ==
    CASE t.pc = "entry" -> [t |-> StepEntry(g, u), add |-> 0]
      [] t.pc = "loop" -> [t |-> StepLoop(g, u, t), add |-> 0]
      [] t.pc = "merge" -> StepMerge(g, t)

\* the positions of row_ptr and edge_list a step of invocation u loads
\* (compute.wgsl:52-53, 57, 66-67, 76-77); arrayLength reads no element
NoReads == [rowPtr |-> {}, edgeList |-> {}]
StepReads(g, u, t) ==
    CASE t.pc = "entry" ->
             IF OutOfRange(u, NumNodesOf(g.rowPtr)) THEN NoReads
             ELSE [rowPtr |-> {u, u + 1}, edgeList |-> {}]
      [] t.pc = "loop" ->
             IF ~(t.i < t.end_u) THEN NoReads
             ELSE LET v == Load(g.edgeList, t.i)
                  IN  IF SkipNeighbor(v, u) THEN [rowPtr |-> {}, edgeList |-> {t.i}]
                      ELSE [rowPtr |-> {v, v + 1}, edgeList |-> {t.i}]
      [] t.pc = "merge" ->
             IF ~(t.ptr_u < t.end_u /\ t.ptr_v < t.end_v) THEN NoReads
             ELSE [rowPtr |-> {}, edgeList |-> {t.ptr_u, t.ptr_v}]
      [] OTHER -> NoReads

\* atomicAdd on atomic<u32> (compute.wgsl:11, 82): wraps at the counter's width
Pow2(n) == 2 ^ n
AtomicStore(old, k, bits) == k % Pow2(bits)
AtomicAdd(old, k, bits) == (old + k) % Pow2(bits)

\* the number of atomicAdd calls invocation u makes when run to its return
RECURSIVE TaskAdds(_, _, _)
TaskAdds(g, u, t) ==
    IF t.pc = "retired" THEN 0
    ELSE LET r == TaskStep(g, u, t) IN r.add + TaskAdds(g, u, r.t)

\* lines 57, 76, 79-82: the triple (u, v, w) at each atomicAdd invocation u
\* makes when run to its return, in the order it makes them
RECURSIVE TaskFinds(_, _, _)
TaskFinds(g, u, t) ==
    IF t.pc = "retired" THEN <<>>
    ELSE LET r == TaskStep(g, u, t)
             found == IF r.add = 0 THEN <<>>
                      ELSE << <<u, Load(g.edgeList, t.i), Load(g.edgeList, t.ptr_u)>> >>
         IN  found \o TaskFinds(g, u, r.t)
\* the triples of the invocations 0 .. n-1
RECURSIVE AllFinds(_, _)
AllFinds(g, n) ==
    IF n = 0 THEN <<>> ELSE AllFinds(g, n - 1) \o TaskFinds(g, n - 1, TaskEntry)

\* lines 231-232: dispatchWorkgroups(Math.ceil(numNodes / workgroupSize))
NumWorkgroups(numNodes) == (numNodes + workgroupSize - 1) \div workgroupSize
GridSize(numNodes) == NumWorkgroups(numNodes) * workgroupSize

\* the counter after the invocations 0 .. n-1 ran one after the other
RECURSIVE RunInOrder(_, _, _, _)
RunInOrder(g, u, n, bits) ==
    IF n = 0 THEN 0
    ELSE AtomicAdd(RunInOrder(g, u, n - 1, bits), TaskAdds(g, u + n - 1, TaskEntry), bits)
KernelCount(g, bits) == RunInOrder(g, 0, GridSize(g.numNodes), bits)

\* the same dispatch with the workgroup size B written in place of 256 in
\* main.js:230 and compute.wgsl:36
NumWorkgroupsOf(numNodes, B) == (numNodes + B - 1) \div B
GridSizeOf(numNodes, B) == NumWorkgroupsOf(numNodes, B) * B
KernelCountOf(g, bits, B) == RunInOrder(g, 0, GridSizeOf(g.numNodes, B), bits)

(***************************************************************************)
(* What the input says, independently of the program: the valid records,   *)
(* the pairs of distinct ids they join, and the triangles among them.      *)
(***************************************************************************)
ValidPairs(lines) ==
    {<<ParseInt(l.u_str).val, ParseInt(l.v_str).val>> :
        l \in {lines[k] : k \in {j \in 1..Len(lines) :
                   /\ lines[j].kind = "data"
                   /\ ~ParseInt(lines[j].u_str).nan
                   /\ ~ParseInt(lines[j].v_str).nan}}}
EndpointsOf(pairs) == {p[1] : p \in pairs} \cup {p[2] : p \in pairs}
JoinedBy(pairs, a, b) == a # b /\ (<<a, b>> \in pairs \/ <<b, a>> \in pairs)
Endpoints(lines) == EndpointsOf(ValidPairs(lines))
Joined(lines, a, b) == JoinedBy(ValidPairs(lines), a, b)
Triangles(lines) ==
    LET pairs == ValidPairs(lines)
    IN  {t \in SUBSET EndpointsOf(pairs) :
            /\ Cardinality(t) = 3
            /\ \A a \in t : \A b \in t : a # b => JoinedBy(pairs, a, b)}
NumTriangles(lines) == Cardinality(Triangles(lines))

(***************************************************************************)
(* State of the page.                                                      *)
(***************************************************************************)
VARIABLES
    files,              \* graphInput.files: <<>> or <<the selected file's lines>>
    runButton,          \* [disabled, textContent]
    triangleCountText,  \* triangleCountEl.textContent
    status,             \* statusEl: [text, type]
    pc,                 \* the await at which runTriangleCounting is suspended
    outcome,            \* how the last call of runTriangleCounting ended
    runFile,            \* the File handed to parseGraphToCSR: <<>> or <<lines>>
    csr,                \* {numNodes, rowPtr, edgeList} as parsed and uploaded
    pipelineValid,      \* whether the fetched shader text compiled
    width,              \* bits of total_triangles
    gpu,                \* position of the device queue in the submitted commands
    tasks,              \* the dispatched invocations, tasks[u + 1] for global id u
    resultBuffer,       \* total_triangles
    stagingBuffer,      \* the mappable copy
    count,              \* resultArray[0] as read by the host
    base,               \* edit specification: the original file and its result
    variant             \* edit specification: the edited file and its result

pageVars == <<files, runButton, triangleCountText, status>>
runVars == <<pc, outcome, runFile, csr, pipelineValid, count>>
gpuVars == <<gpu, tasks, resultBuffer, stagingBuffer>>
editVars == <<base, variant>>
vars == <<pageVars, runVars, gpuVars, width, editVars>>

NoGraph == [numNodes |-> 0, rowPtr |-> <<>>, edgeList |-> <<>>]
NoEdit ==
    [kind |-> "none", file |-> <<>>, csr |-> NoGraph, batch |-> workgroupSize,
     count |-> 0]

\* Number.prototype.toLocaleString for a count below 1000, where no locale
\* inserts a grouping separator: the decimal digits
Digit(d) == <<"0", "1", "2", "3", "4", "5", "6", "7", "8", "9">>[d + 1]
RECURSIVE ToLocaleString(_)
ToLocaleString(n) ==
    IF n < 10 THEN <<Digit(n)>> ELSE Append(ToLocaleString(n \div 10), Digit(n % 10))

\* updateStatus(message, type) (main.js:39-55)
UpdateStatus(message, type) == [text |-> message, type |-> type]

\* the catch block of runTriangleCounting (main.js:260-263)
Caught(message) ==
    /\ status' = UpdateStatus(message, "error")
    /\ pc' = "idle"
    /\ outcome' = "failed"

(***************************************************************************)
(* The page's event handlers.                                              *)
(***************************************************************************)
\* graphInput 'change' (main.js:13-21)
Change(selection) ==
    /\ files' = selection
    /\ runButton' =
           IF Len(selection) > 0
           THEN [disabled |-> FALSE, textContent |-> "Run Triangle Counting"]
           ELSE [disabled |-> TRUE, textContent |-> "Select a file first"]
    /\ UNCHANGED <<triangleCountText, status, runVars, gpuVars, width, editVars>>

\* runButton 'click' (main.js:24-32) and runTriangleCounting up to its first
\* await (main.js:147-154).  A disabled button dispatches no click; the model
\* follows one call of runTriangleCounting at a time.
Click(hasGpu) ==
    /\ ~runButton.disabled
    /\ pc = "idle"
    /\ IF Len(files) = 0
       THEN /\ status' = UpdateStatus("Please select a graph file first.", "error")
            /\ UNCHANGED <<triangleCountText, pc, outcome>>
       ELSE /\ triangleCountText' = <<"0">>
            /\ IF ~hasGpu
               THEN Caught("Error: WebGPU not supported.")
               ELSE /\ status' = UpdateStatus("Initializing WebGPU...", "running")
                    /\ pc' = "requestAdapter"
                    /\ outcome' = "pending"
    /\ UNCHANGED <<files, runButton, runFile, csr, pipelineValid, count, gpuVars,
                   width, editVars>>

(***************************************************************************)
(* runTriangleCounting (main.js:146-264), one action per await.            *)
(***************************************************************************)
\* line 154 resumes: the adapter is null or not; then requestDevice
AdapterSettled(found) ==
    /\ pc = "requestAdapter"
    /\ IF ~found
       THEN Caught("Error: No appropriate GPUAdapter found.")
       ELSE /\ pc' = "requestDevice"
            /\ UNCHANGED <<status, outcome>>
    /\ UNCHANGED <<files, runButton, triangleCountText, runFile, csr, pipelineValid,
                   count, gpuVars, width, editVars>>

\* line 159 resumes; lines 160-164 call parseGraphToCSR(graphInput.files[0]),
\* whose readAsText throws when no file is selected any more
DeviceSettled(ok) ==
    /\ pc = "requestDevice"
    /\ IF ~ok
       THEN Caught("Error: requestDevice failed") /\ UNCHANGED runFile
       ELSE IF Len(files) = 0
       THEN Caught("Error: readAsText: not a Blob") /\ UNCHANGED runFile
       ELSE /\ status' = UpdateStatus("Parsing graph file...", "running")
            /\ runFile' = files
            /\ pc' = "readAsText"
            /\ UNCHANGED outcome
    /\ UNCHANGED <<files, runButton, triangleCountText, csr, pipelineValid, count,
                   gpuVars, width, editVars>>

\* reader.onload / reader.onerror (main.js:68-138), then lines 165-199: the
\* buffers are created and filled (createBuffer throws when the mapping cannot
\* be allocated) and the shader text is fetched
ReaderSettledReusingBuffers(loaded, allocated) ==
    /\ pc = "readAsText"
    /\ IF ~loaded
       THEN Caught("Error: file read failed") /\ UNCHANGED csr
       ELSE /\ csr' = ParseGraphToCSR(runFile[1])
            /\ IF ~allocated
               THEN Caught("Error: buffer allocation failed")
               ELSE /\ status' = UpdateStatus("Compiling GPU shader...", "running")
                    /\ pc' = "fetch"
                    /\ UNCHANGED outcome
    /\ UNCHANGED <<files, runButton, triangleCountText, runFile, pipelineValid, count,
                   gpuVars, width, editVars>>
ReaderSettled(loaded, allocated) ==
    /\ pc = "readAsText"
    /\ IF ~loaded
       THEN Caught("Error: file read failed") /\ UNCHANGED <<csr, gpuVars>>
       ELSE /\ csr' = ParseGraphToCSR(runFile[1])
            /\ IF ~allocated
               THEN Caught("Error: buffer allocation failed") /\ UNCHANGED gpuVars
               ELSE /\ status' = UpdateStatus("Compiling GPU shader...", "running")
                    /\ pc' = "fetch"
                    /\ resultBuffer' = 0
                    /\ stagingBuffer' = 0
                    /\ tasks' = <<>>
                    /\ gpu' = "idle"
                    /\ UNCHANGED outcome
    /\ UNCHANGED <<files, runButton, triangleCountText, runFile, pipelineValid, count,
                   width, editVars>>

\* lines 210-217: createBindGroup binds the whole of each buffer; a binding of
\* size zero fails validation, which raises no exception and leaves the bind
\* group invalid.  edgeListBuffer has size edgeList.byteLength (line 179);
\* rowPtr has at least one entry.
BindingsValid(g) == Len(g.edgeList) > 0

\* line 199 resumes; lines 200-242 build the pipeline, encode clearBuffer, the
\* compute pass and the copy, and submit.  The response is not checked, and a
\* shader text that does not compile raises no exception: the pipeline, the bind
\* group and the command buffer are invalid and the queue executes nothing.
\* The same holds of an invalid bind group.
FetchSettled(fetched, compiles) ==
    /\ pc = "fetch"
    /\ IF ~fetched
       THEN Caught("Error: Failed to fetch") /\ UNCHANGED <<pipelineValid, gpu>>
       ELSE /\ pipelineValid' = compiles
            /\ status' = UpdateStatus("Running computation on GPU...", "running")
            /\ gpu' = IF compiles /\ BindingsValid(csr) THEN "clearBuffer" ELSE "done"
            /\ pc' = "onSubmittedWorkDone"
            /\ UNCHANGED outcome
    /\ UNCHANGED <<files, runButton, triangleCountText, runFile, csr, count, tasks,
                   resultBuffer, stagingBuffer, width, editVars>>

\* line 242 resumes once the queue has finished the submitted work
WorkDone ==
    /\ pc = "onSubmittedWorkDone"
    /\ gpu = "done"
    /\ status' = UpdateStatus("Awaiting GPU result...", "running")
    /\ pc' = "mapAsync"
    /\ UNCHANGED <<files, runButton, triangleCountText, outcome, runFile, csr,
                   pipelineValid, count, gpuVars, width, editVars>>

\* line 245 resumes; lines 246-259 read resultArray[0], display it and destroy
\* the buffers
MapSettled ==
    /\ pc = "mapAsync"
    /\ count' = stagingBuffer
    /\ triangleCountText' = ToLocaleString(stagingBuffer)
    /\ status' = UpdateStatus("Computation successful!", "success")
    /\ pc' = "idle"
    /\ outcome' = "success"
    /\ gpu' = "idle"
    /\ UNCHANGED <<files, runButton, runFile, csr, pipelineValid, tasks, resultBuffer,
                   stagingBuffer, width, editVars>>

(***************************************************************************)
(* The device queue: the commands of the one submitted command buffer, in  *)
(* the order they were encoded (main.js:224-236).                          *)
(***************************************************************************)
\* line 224: commandEncoder.clearBuffer(resultBuffer)
GpuClearBuffer ==
    /\ gpu = "clearBuffer"
    /\ resultBuffer' = 0
    /\ gpu' = "dispatch"
    /\ UNCHANGED <<pageVars, runVars, tasks, stagingBuffer, width, editVars>>

\* lines 226-234: the compute pass starts GridSize invocations of main
GpuDispatchAgain ==
    /\ gpu \in {"dispatch", "done"}
    /\ tasks' = [u \in 1..GridSize(csr.numNodes) |-> TaskEntry]
    /\ gpu' = "pass"
    /\ UNCHANGED <<pageVars, runVars, resultBuffer, stagingBuffer, width, editVars>>
GpuDispatch ==
    /\ gpu = "dispatch"
    /\ tasks' = [u \in 1..GridSize(csr.numNodes) |-> TaskEntry]
    /\ gpu' = "pass"
    /\ UNCHANGED <<pageVars, runVars, resultBuffer, stagingBuffer, width, editVars>>

\* one step of invocation u of main (compute.wgsl:38-94)
GpuTask(u) ==
    /\ gpu = "pass"
    /\ tasks[u + 1].pc # "retired"
    /\ LET r == TaskStep(csr, u, tasks[u + 1])
       IN  /\ tasks' = [tasks EXCEPT ![u + 1] = r.t]
           /\ resultBuffer' =
                  IF r.add = 0 THEN resultBuffer
                  ELSE AtomicAdd(resultBuffer, r.add, width)
    /\ UNCHANGED <<pageVars, runVars, gpu, stagingBuffer, width, editVars>>

\* the pass ends when every invocation has returned
PassCompleteEarly(ts) == \E k \in 1..Len(ts) : ts[k].pc = "retired"
PassComplete(ts) == \A k \in 1..Len(ts) : ts[k].pc = "retired"

\* line 236: copyBufferToBuffer(resultBuffer, 0, stagingBuffer, 0, 4) runs
\* after the pass
GpuCopy ==
    /\ gpu = "pass"
    /\ PassComplete(tasks)
    /\ stagingBuffer' = resultBuffer
    /\ gpu' = "done"
    /\ UNCHANGED <<pageVars, runVars, tasks, resultBuffer, width, editVars>>

GpuStep ==
    \/ GpuClearBuffer
    \/ GpuDispatch
    \/ \E u \in 0..(Len(tasks) - 1) : GpuTask(u)
    \/ GpuCopy

(***************************************************************************)
(* Spec: the page, from load.  Any of the sample files may be selected at   *)
(* any time, and every asynchronous step may fail.                         *)
(***************************************************************************)
PageFiles == {EmptyFile, PathFile, TriangleFile, K4File}

Init ==
    /\ files = <<>>
    /\ runButton = [disabled |-> TRUE, textContent |-> "(markup)"]
    /\ triangleCountText \in {<<>>, <<"0">>}
    /\ status = UpdateStatus("(markup)", "idle")
    /\ pc = "idle"
    /\ outcome = "none"
    /\ runFile = <<>>
    /\ csr = NoGraph
    /\ pipelineValid = FALSE
    /\ width = CounterBits
    /\ gpu = "idle"
    /\ tasks = <<>>
    /\ resultBuffer = 0
    /\ stagingBuffer = 0
    /\ count = 0
    /\ base = NoEdit
    /\ variant = NoEdit

Next ==
    \/ \E f \in PageFiles : Change(<<f>>)
    \/ Change(<<>>)
    \/ \E hasGpu \in BOOLEAN : Click(hasGpu)
    \/ \E found \in BOOLEAN : AdapterSettled(found)
    \/ \E ok \in BOOLEAN : DeviceSettled(ok)
    \/ \E loaded \in BOOLEAN, allocated \in BOOLEAN : ReaderSettled(loaded, allocated)
    \/ \E fetched \in BOOLEAN, compiles \in BOOLEAN : FetchSettled(fetched, compiles)
    \/ GpuStep
    \/ WorkDone
    \/ MapSettled

Spec == Init /\ [][Next]_vars

(***************************************************************************)
(* SpecKernel: one run that succeeds, from the moment the selected file is *)
(* handed to parseGraphToCSR, for every enumerated file.                   *)
(***************************************************************************)
KernelFiles == GraphFiles \cup SampleFiles \cup EdgeCaseFiles

Reading(f, bits) ==
    /\ files = <<f>>
    /\ runButton = [disabled |-> FALSE, textContent |-> "Run Triangle Counting"]
    /\ triangleCountText = <<"0">>
    /\ status = UpdateStatus("Parsing graph file...", "running")
    /\ pc = "readAsText"
    /\ outcome = "pending"
    /\ runFile = <<f>>
    /\ csr = NoGraph
    /\ pipelineValid = FALSE
    /\ width = bits
    /\ gpu = "idle"
    /\ tasks = <<>>
    /\ resultBuffer = 0
    /\ stagingBuffer = 0
    /\ count = 0
    /\ base = NoEdit
    /\ variant = NoEdit

InitKernel == \E f \in KernelFiles : Reading(f, CounterBits)

NextKernel ==
    \/ ReaderSettled(TRUE, TRUE)
    \/ FetchSettled(TRUE, TRUE)
    \/ GpuStep
    \/ WorkDone
    \/ MapSettled

SpecKernel == InitKernel /\ [][NextKernel]_vars

(***************************************************************************)
(* SpecFair: the run from the moment the graph is uploaded, under a        *)
(* scheduler that does not stop while a step is possible: the device runs  *)
(* every invocation it has started, and every promise the host awaits is   *)
(* settled.                                                                *)
(***************************************************************************)
FairFiles == {PathFile, TriangleFile, K4File, NoisyTriangleFile, IsolatedFile}

\* the state in which runTriangleCounting awaits the shader text (line 199)
Uploaded(f, bits) ==
    /\ files = <<f>>
    /\ runButton = [disabled |-> FALSE, textContent |-> "Run Triangle Counting"]
    /\ triangleCountText = <<"0">>
    /\ status = UpdateStatus("Compiling GPU shader...", "running")
    /\ pc = "fetch"
    /\ outcome = "pending"
    /\ runFile = <<f>>
    /\ csr = ParseGraphToCSR(f)
    /\ pipelineValid = FALSE
    /\ width = bits
    /\ gpu = "idle"
    /\ tasks = <<>>
    /\ resultBuffer = 0
    /\ stagingBuffer = 0
    /\ count = 0
    /\ base = NoEdit
    /\ variant = NoEdit

InitFair == \E f \in FairFiles : Uploaded(f, CounterBits)

NextFair ==
    \/ FetchSettled(TRUE, TRUE)
    \/ GpuStep
    \/ WorkDone
    \/ MapSettled

SpecFair == InitFair /\ [][NextFair]_vars /\ WF_vars(NextFair)

(***************************************************************************)
(* SpecNarrow: the same run with a counter of NarrowBits bits.             *)
(***************************************************************************)
InitNarrow == \E f \in SampleFiles : Reading(f, NarrowBits)

SpecNarrow == InitNarrow /\ [][NextKernel]_vars

(***************************************************************************)
(* SpecEdit: parseGraphToCSR and the kernel as a function of the file.     *)
(* A file is built and counted, then one edit is made to it and the edited *)
(* file is built and counted: two records are exchanged, a self-loop       *)
(* record is inserted, or a copy of a record (as written or with its       *)
(* endpoints swapped) is inserted, or the same file is counted again with  *)
(* another workgroup size.                                                 *)
(***************************************************************************)
EditFiles == ListsUpTo(EdgeRecords, MaxRecs) \cup SampleFiles

\* the CSR graph of a file and the counter after the kernel ran on it
Built(kind, f) ==
    LET g == ParseGraphToCSR(f)
    IN  [kind |-> kind, file |-> f, csr |-> g, batch |-> workgroupSize,
         count |-> KernelCount(g, CounterBits)]

InsertAt(f, p, line) == SubSeq(f, 1, p - 1) \o <<line>> \o SubSeq(f, p, Len(f))
Exchange(f, i, j) ==
    [k \in 1..Len(f) |-> IF k = i THEN f[j] ELSE IF k = j THEN f[i] ELSE f[k]]
Swapped(line) == [line EXCEPT !.u_str = line.v_str, !.v_str = line.u_str]

Idle ==
    /\ files = <<>>
    /\ runButton = [disabled |-> TRUE, textContent |-> "(markup)"]
    /\ triangleCountText = <<>>
    /\ status = UpdateStatus("(markup)", "idle")
    /\ pc = "idle"
    /\ outcome = "none"
    /\ runFile = <<>>
    /\ csr = NoGraph
    /\ pipelineValid = FALSE
    /\ width = CounterBits
    /\ gpu = "idle"
    /\ tasks = <<>>
    /\ resultBuffer = 0
    /\ stagingBuffer = 0
    /\ count = 0

InitEdit ==
    /\ Idle
    /\ \E f \in EditFiles : base = [NoEdit EXCEPT !.kind = "selected", !.file = f]
    /\ variant = NoEdit

notEdited == <<pageVars, runVars, gpuVars, width>>

BuildBase ==
    /\ base.kind = "selected"
    /\ base' = Built("base", base.file)
    /\ UNCHANGED <<variant, notEdited>>

Shuffle(i, j) ==
    /\ base.kind = "base" /\ variant.kind = "none"
    /\ variant' = Built("shuffle", Exchange(base.file, i, j))
    /\ UNCHANGED <<base, notEdited>>

AddSelfLoop(p, a) ==
    /\ base.kind = "base" /\ variant.kind = "none"
    /\ variant' = Built("selfloop", InsertAt(base.file, p, DataLine(a, a)))
    /\ UNCHANGED <<base, notEdited>>

AddCopy(p, k, swap) ==
    /\ base.kind = "base" /\ variant.kind = "none"
    /\ base.file[k].kind = "data"
    /\ variant' = Built("copy", InsertAt(base.file, p,
                            IF swap THEN Swapped(base.file[k]) ELSE base.file[k]))
    /\ UNCHANGED <<base, notEdited>>

Rebatch(B) ==
    /\ base.kind = "base" /\ variant.kind = "none"
    /\ variant' = [base EXCEPT !.kind = "batch", !.batch = B,
                                !.count = KernelCountOf(base.csr, CounterBits, B)]
    /\ UNCHANGED <<base, notEdited>>

NextEdit ==
    \/ BuildBase
    \/ \E i \in 1..Len(base.file), j \in 1..Len(base.file) : i < j /\ Shuffle(i, j)
    \/ \E p \in 1..(Len(base.file) + 1), a \in ExtIds : AddSelfLoop(p, a)
    \/ \E p \in 1..(Len(base.file) + 1), k \in 1..Len(base.file), swap \in BOOLEAN :
           AddCopy(p, k, swap)
    \/ \E B \in 1..MaxBatch : Rebatch(B)

SpecEdit == InitEdit /\ [][NextEdit]_vars

(***************************************************************************)
(* SpecMalformed: a file is built and counted, then a record whose first   *)
(* two fields are not both integers is inserted into it and the file is    *)
(* built and counted again.                                                *)
(***************************************************************************)
MalformedBases == GraphFiles \cup SampleFiles

InitMalformed ==
    /\ Idle
    /\ \E f \in MalformedBases : base = [NoEdit EXCEPT !.kind = "selected", !.file = f]
    /\ variant = NoEdit

AddMalformed(p, line) ==
    /\ base.kind = "base" /\ variant.kind = "none"
    /\ variant' = Built("malformed", InsertAt(base.file, p, line))
    /\ UNCHANGED <<base, notEdited>>

NextMalformed ==
    \/ BuildBase
    \/ \E p \in 1..(Len(base.file) + 1), line \in MalformedRecords : AddMalformed(p, line)

SpecMalformed == InitMalformed /\ [][NextMalformed]_vars

(***************************************************************************)
(* Properties.                                                             *)
(***************************************************************************)
\* node i's slice edgeList[rowPtr[i] .. rowPtr[i+1])
Slice(g, i) == SubSeq(g.edgeList, At(g.rowPtr, i) + 1, At(g.rowPtr, i + 1))
SliceSet(g, i) == {Slice(g, i)[k] : k \in 1..Len(Slice(g, i))}
\* the number of the given endpoints smaller than x
RankIn(ends, x) == Cardinality({y \in ends : y < x})
\* the files built so far in the edit specification
BuiltFiles == {b \in {base, variant} : b.kind \notin {"none", "selected"}}
\* the file built last
Latest == IF variant.kind = "none" THEN base ELSE variant
\* the triangles of a CSR graph, each as its nodes in ascending order
CsrTriangles(g) ==
    LET V == 0..(g.numNodes - 1)
        nbrs == [u \in V |-> SliceSet(g, u)]
        edges == UNION {{<<a, b>> : b \in {y \in nbrs[a] : a < y}} : a \in V}
    IN  UNION {{<<e[1], e[2], c>> : c \in {y \in nbrs[e[1]] \cap nbrs[e[2]] : e[2] < y}} :
                  e \in edges}

\* C1: once every invocation of a run has returned, the counter, and the count
\* the host then reads from it, is the number of triangles of the input graph
C1_CountIsNumTriangles ==
    /\ (gpu = "pass" /\ \A k \in 1..Len(tasks) : tasks[k].pc = "retired")
           => resultBuffer = NumTriangles(runFile[1])
    /\ outcome = "success" => count = NumTriangles(runFile[1])
C1_Witness ==
    /\ outcome = "success"
    /\ runFile = <<K4File>>
    /\ count = 4
    /\ triangleCountText = <<"4">>

\* C2: in a built CSR graph every node's slice is strictly ascending and does
\* not contain the node itself
C2_SlicesStrictlyAscending ==
    \A b \in BuiltFiles : \A i \in 0..(b.csr.numNodes - 1) :
        LET sl == Slice(b.csr, i)
        IN  /\ \A k \in 1..(Len(sl) - 1) : sl[k] < sl[k + 1]
            /\ \A k \in 1..Len(sl) : sl[k] # i
C2_Witness ==
    /\ base.file = NoisyTriangleFile
    /\ variant.kind = "selfloop"
    /\ variant.csr.numNodes = 4
    /\ \E i \in 0..3 : Len(Slice(variant.csr, i)) = 2

\* C3: while the invocations run, in any order, the counter plus the increments
\* the invocations have still to make is the sum of what each invocation adds
\* when run alone; so no increment is lost and the final value is that sum.
\* An invocation's step changes nothing of the graph.
RECURSIVE SumOver(_, _, _)
SumOver(g, ts, n) ==
    IF n = 0 THEN 0 ELSE SumOver(g, ts, n - 1) + TaskAdds(g, n - 1, ts[n])
C3_CounterIsSumOfTasks ==
    /\ [](gpu = "pass" =>
            (resultBuffer + SumOver(csr, tasks, Len(tasks))) % Pow2(width)
                = SumOver(csr, [k \in 1..Len(tasks) |-> TaskEntry], Len(tasks))
                      % Pow2(width))
    /\ [][gpu = "pass" /\ gpu' = "pass" => csr' = csr]_vars
C3_Witness ==
    /\ gpu = "pass"
    /\ runFile = <<K4File>>
    /\ tasks[1].pc # "retired"
    /\ tasks[2].pc = "retired"
    /\ resultBuffer = 2

\* C4: whenever the host is about to read, or has read, the counter of a run,
\* the queue is past the compute pass and the copy, every dispatched invocation
\* has returned, and the staging buffer holds the counter's final value
C4_ReadAfterAllRetired ==
    (pc = "mapAsync" \/ (pc = "idle" /\ outcome = "success")) =>
        /\ gpu \in {"done", "idle"}
        /\ \A k \in 1..Len(tasks) : tasks[k].pc = "retired"
        /\ pipelineValid =>
               /\ Len(tasks) = GridSize(csr.numNodes)
               /\ stagingBuffer = resultBuffer
        /\ outcome = "success" => count = stagingBuffer
C4_Witness ==
    /\ pc = "mapAsync"
    /\ pipelineValid
    /\ Len(tasks) = 4
    /\ resultBuffer = 4

\* C5: a run that failed leaves no count of zero on the page
RunFailed == outcome = "failed" \/ (outcome = "success" /\ ~pipelineValid)
C5_FailedRunShowsNoZero ==
    (pc = "idle" /\ RunFailed) => triangleCountText # <<"0">>

\* C6: a successful run on a graph with more triangles than the counter can
\* hold still reports the exact count
C6_NoSilentWrap ==
    (outcome = "success" /\ NumTriangles(runFile[1]) >= Pow2(width))
        => triangleCountText = ToLocaleString(NumTriangles(runFile[1]))

\* C7: exchanging records of the file does not change the count
C7_ShuffleKeepsCount ==
    variant.kind = "shuffle" => variant.count = base.count
C7_Witness ==
    /\ variant.kind = "shuffle"
    /\ base.file = K4File
    /\ variant.file # base.file
    /\ variant.count = 4

\* C8: inserting a self-loop record, or a copy of a record as written or with
\* its endpoints swapped, does not change the count
C8_NoiseKeepsCount ==
    variant.kind \in {"selfloop", "copy"} => variant.count = base.count
C8_Witness ==
    /\ variant.kind = "selfloop"
    /\ base.file = TriangleFile
    /\ variant.csr.numNodes = base.csr.numNodes + 1
    /\ variant.count = 1

\* C9: in a built CSR graph, v is in u's slice exactly when u is in v's slice,
\* which is exactly when a record joins their two distinct external ids; no
\* node is in its own slice
C9_AdjacencySymmetric ==
    \A b \in BuiltFiles :
        LET pairs == ValidPairs(b.file)
            ends == EndpointsOf(pairs)
            nbrs == [u \in 0..(b.csr.numNodes - 1) |-> SliceSet(b.csr, u)]
        IN  /\ \A u \in DOMAIN nbrs :
                   /\ u \notin nbrs[u]
                   /\ \A v \in DOMAIN nbrs : (v \in nbrs[u]) <=> (u \in nbrs[v])
            /\ \A x \in ends : \A y \in ends :
                   JoinedBy(pairs, x, y) <=> RankIn(ends, y) \in nbrs[RankIn(ends, x)]
C9_Witness ==
    /\ variant.kind = "copy"
    /\ base.file = PathFile
    /\ SliceSet(variant.csr, 1) = {0, 2}
    /\ SliceSet(variant.csr, 3) = {2}

\* C10: rowPtr has numNodes + 1 entries, starts at 0, never decreases, grows at
\* node i by the number of i's distinct neighbours, and ends at the length of
\* edgeList
C10_RowPtrShape ==
    \A b \in BuiltFiles :
        LET pairs == ValidPairs(b.file)
            ends == EndpointsOf(pairs)
        IN  /\ Len(b.csr.rowPtr) = b.csr.numNodes + 1
            /\ At(b.csr.rowPtr, 0) = 0
            /\ At(b.csr.rowPtr, b.csr.numNodes) = Len(b.csr.edgeList)
            /\ b.csr.numNodes = Cardinality(ends)
            /\ \A x \in ends :
                   LET i == RankIn(ends, x)
                   IN  /\ At(b.csr.rowPtr, i) <= At(b.csr.rowPtr, i + 1)
                       /\ At(b.csr.rowPtr, i + 1) - At(b.csr.rowPtr, i)
                              = Cardinality({y \in ends : JoinedBy(pairs, x, y)})
C10_Witness ==
    /\ base.file = NoisyTriangleFile
    /\ variant.kind = "selfloop"
    /\ variant.csr.rowPtr = <<0, 0, 2, 4, 6>>

\* C11: counted with any workgroup size B, the grid is numNodes rounded up to
\* a multiple of B, the invocations that pass the bounds check are exactly the
\* vertices 0 .. numNodes-1, one each, every other invocation returns at the
\* bounds check without loading from the graph or adding to the counter, and
\* the count is the one obtained with the program's workgroup size
C11_BatchSizeKeepsCount ==
    variant.kind = "batch" =>
        LET g == variant.csr
            B == variant.batch
            n == GridSizeOf(g.numNodes, B)
            inRange == {u \in 0..(n - 1) : ~OutOfRange(u, NumNodesOf(g.rowPtr))}
        IN  /\ n % B = 0 /\ n >= g.numNodes /\ n - g.numNodes < B
            /\ inRange = 0..(g.numNodes - 1)
            /\ \A u \in (0..(n - 1)) \ (0..(g.numNodes - 1)) :
                   /\ StepReads(g, u, TaskEntry) = NoReads
                   /\ TaskStep(g, u, TaskEntry) = [t |-> TaskRetired, add |-> 0]
            /\ variant.count = base.count
C11_Witness ==
    /\ variant.kind = "batch"
    /\ variant.batch = 3
    /\ base.file = K4File
    /\ GridSizeOf(variant.csr.numNodes, variant.batch) = 6
    /\ variant.count = 4

\* C12: a record whose first two fields are not both integers is skipped: the
\* file with the record inserted builds the same CSR graph, and gives the same
\* count, as the file without it
C12_MalformedRecordSkipped ==
    variant.kind = "malformed" =>
        /\ variant.csr = base.csr
        /\ variant.count = base.count

\* C13: a file in which no line has two fields that start with an integer
\* builds the CSR graph with no node, rowPtr = [0] and an empty edgeList, and
\* its run ends as a success with count 0; an invocation for a vertex whose
\* slice is empty never enters the merge-join and leaves the for loop at once
NoValidRecords(lines) ==
    \A k \in 1..Len(lines) :
        lines[k].kind = "data" => ~(lines[k].u_str.hasInt /\ lines[k].v_str.hasInt)
C13_EmptyGraphCountsZero ==
    /\ (pc # "readAsText" /\ NoValidRecords(runFile[1])) =>
           /\ csr = [numNodes |-> 0, rowPtr |-> <<0>>, edgeList |-> <<>>]
           /\ pc = "idle" =>
                  /\ outcome = "success"
                  /\ count = 0
                  /\ triangleCountText = <<"0">>
                  /\ status = UpdateStatus("Computation successful!", "success")
    /\ gpu = "pass" =>
           \A u \in 0..(csr.numNodes - 1) :
               At(csr.rowPtr, u) = At(csr.rowPtr, u + 1) =>
                   /\ tasks[u + 1].pc # "merge"
                   /\ tasks[u + 1].pc = "loop" =>
                          StepLoop(csr, u, tasks[u + 1]) = TaskRetired
                   /\ TaskAdds(csr, u, TaskEntry) = 0
C13_Witness ==
    /\ runFile = <<JunkOnlyFile>>
    /\ outcome = "success"
    /\ csr.rowPtr = <<0>>
    /\ count = 0

\* the graph and the count of each file of the page specification, computed
\* from the file alone
PageGraphs == [f \in PageFiles |-> ParseGraphToCSR(f)]
PageCounts == [f \in PageFiles |-> KernelCount(ParseGraphToCSR(f), CounterBits)]

\* C14: through any sequence of runs on any files, failed runs included, each
\* run starts from the graph parsed from its own file and from fresh, zeroed
\* buffers, and the count it reads is the count of its own file's graph
C14_CountDependsOnInputOnly ==
    /\ pc \in {"fetch", "onSubmittedWorkDone", "mapAsync"} =>
           csr = PageGraphs[runFile[1]]
    /\ pc = "fetch" => resultBuffer = 0 /\ stagingBuffer = 0 /\ tasks = <<>>
    /\ gpu = "pass" => Len(tasks) = GridSize(csr.numNodes)
    /\ (outcome = "success" /\ pipelineValid) => count = PageCounts[runFile[1]]
C14_Witness ==
    /\ pc = "mapAsync"
    /\ runFile = <<TriangleFile>>
    /\ stagingBuffer = 1
    /\ count = 4

\* C15: on a built CSR graph every atomicAdd is made by an invocation u at a
\* neighbour v, on finding a common neighbour w, with u < v < w and the three
\* edges present; and for every triangle a < b < c exactly one atomicAdd is
\* made, by invocation a at neighbour b on finding c
C15_EachTriangleFoundOnce ==
    Latest.kind \notin {"none", "selected"} =>
        LET g == Latest.csr
            finds == AllFinds(g, GridSize(g.numNodes))
            triangles == CsrTriangles(g)
        IN  /\ \A k \in 1..Len(finds) : finds[k] \in triangles
            /\ \A x \in triangles : Cardinality({k \in 1..Len(finds) : finds[k] = x}) = 1
C15_Witness ==
    /\ base.kind = "base"
    /\ base.file = K4File
    /\ AllFinds(base.csr, 4) = << <<0, 1, 2>>, <<0, 1, 3>>, <<0, 2, 3>>, <<1, 2, 3>> >>

\* C16: in every step of every run the queue moves through its commands in
\* the order clear, dispatch, pass, copy and back to idle, each once; the
\* counter is zero when the invocations are started, changes only by an
\* invocation's step during the pass or by being zeroed, is copied to the
\* staging buffer only at the end of the pass, and is read by the host only
\* once, from the staging buffer, after the copy
QueueOrder ==
    {<<"idle", "clearBuffer">>, <<"idle", "done">>, <<"clearBuffer", "dispatch">>,
     <<"dispatch", "pass">>, <<"pass", "done">>, <<"done", "idle">>}
C16_RunOrder ==
    [][/\ gpu' # gpu => <<gpu, gpu'>> \in QueueOrder
       /\ (gpu = "idle" /\ gpu' = "clearBuffer") => pc = "fetch"
       /\ (gpu = "idle" /\ gpu' = "done") => ~(pipelineValid' /\ BindingsValid(csr))
       /\ (gpu = "clearBuffer" /\ gpu' = "dispatch") => resultBuffer' = 0
       /\ (gpu = "dispatch" /\ gpu' = "pass") =>
              /\ resultBuffer = 0 /\ resultBuffer' = 0
              /\ tasks' = [u \in 1..GridSize(csr.numNodes) |-> TaskEntry]
       /\ tasks' # tasks =>
              \/ gpu = "dispatch" /\ gpu' = "pass"
              \/ gpu = "pass" /\ gpu' = "pass"
              \/ pc = "readAsText" /\ tasks' = <<>>
       /\ resultBuffer' # resultBuffer =>
              \/ gpu = "pass" /\ gpu' = "pass"
              \/ pc = "readAsText" /\ resultBuffer' = 0
       /\ stagingBuffer' # stagingBuffer =>
              \/ gpu = "pass" /\ gpu' = "done" /\ stagingBuffer' = resultBuffer
              \/ pc = "readAsText" /\ stagingBuffer' = 0
       /\ (gpu = "pass" /\ gpu' = "done") =>
              stagingBuffer' = resultBuffer /\ resultBuffer' = resultBuffer
       /\ (count' # count \/ (pc = "mapAsync" /\ pc' # pc)) =>
              /\ pc = "mapAsync" /\ pc' = "idle"
              /\ gpu = "done" /\ gpu' = "idle"
              /\ count' = stagingBuffer
      ]_vars
C16_Witness ==
    /\ outcome = "success"
    /\ pipelineValid
    /\ runFile = <<K4File>>
    /\ gpu = "idle"
    /\ resultBuffer = 4
    /\ stagingBuffer = 4
    /\ count = 4

\* C17: for a built file, numNodes is the number of distinct endpoints of its
\* valid records, self-loop records included; nodeMap sends each endpoint to
\* the number of endpoints smaller than it, so the internal ids are exactly
\* 0 .. numNodes-1 in the order of the external ids; every entry of edgeList
\* is an internal id
C17_IdsAreRanks ==
    Latest.kind \notin {"none", "selected"} =>
        LET g == Latest.csr
            ends == Endpoints(Latest.file)
            nodeMap == NodeMapOf(Latest.file)
        IN  /\ g.numNodes = Cardinality(ends)
            /\ DOMAIN nodeMap = ends
            /\ \A x \in ends : nodeMap[x] = RankIn(ends, x)
            /\ {nodeMap[x] : x \in ends} = 0..(g.numNodes - 1)
            /\ \A x \in ends : \A y \in ends : (x < y) <=> (nodeMap[x] < nodeMap[y])
            /\ \A k \in 1..Len(g.edgeList) : g.edgeList[k] \in 0..(g.numNodes - 1)
C17_Witness ==
    /\ variant.kind = "selfloop"
    /\ base.file = NoisyTriangleFile
    /\ variant.csr.numNodes = 4
    /\ 5 \in DOMAIN NodeMapOf(variant.file)
    /\ NodeMapOf(variant.file)[5] = 1
    /\ NodeMapOf(variant.file)[9] = 3

\* C18: during the pass every invocation that has not returned can take a
\* step whatever the others do, and the step changes its position; an
\* iteration of the merge-join moves no cursor back and moves at least one
\* forward, both by one when the two loaded values are equal; every return to
\* the head of the for loop advances i by one; so every invocation eventually
\* returns and the run eventually ends with a count
C18_TasksTerminate ==
    /\ [](gpu = "pass" =>
            \A u \in 0..(Len(tasks) - 1) :
                tasks[u + 1].pc # "retired" =>
                    /\ ENABLED GpuTask(u)
                    /\ TaskStep(csr, u, tasks[u + 1]).t # tasks[u + 1])
    /\ [][(gpu = "pass" /\ gpu' = "pass") =>
             \A k \in 1..Len(tasks) :
                 LET t == tasks[k]
                     n == tasks'[k]
                 IN  n # t =>
                         /\ (t.pc = "merge" /\ n.pc = "merge") =>
                                /\ n.i = t.i
                                /\ n.ptr_u \in {t.ptr_u, t.ptr_u + 1}
                                /\ n.ptr_v \in {t.ptr_v, t.ptr_v + 1}
                                /\ n.ptr_u + n.ptr_v > t.ptr_u + t.ptr_v
                                /\ Load(csr.edgeList, t.ptr_u) = Load(csr.edgeList, t.ptr_v)
                                       => n.ptr_u + n.ptr_v = t.ptr_u + t.ptr_v + 2
                         /\ (t.pc = "loop" /\ n.pc = "merge") => n.i = t.i
                         /\ (t.pc \in {"loop", "merge"} /\ n.pc = "loop") => n.i = t.i + 1
                         /\ \A j \in 1..Len(tasks) : j # k => tasks'[j] = tasks[j]
        ]_vars
    /\ (gpu = "pass") ~> (gpu = "pass" /\ PassComplete(tasks))
    /\ <>(outcome = "success")
C18_Witness ==
    /\ runFile = <<K4File>>
    /\ gpu = "pass"
    /\ tasks[1].pc = "merge"
    /\ tasks[1].ptr_u = 2
    /\ tasks[1].ptr_v = 5
    /\ tasks[2].pc = "retired"

\* C19: on the graph parseGraphToCSR built, rowPtr has numNodes + 1 entries
\* and edgeList has rowPtr[numNodes], and every step of every invocation loads
\* row_ptr only at positions 0 .. numNodes (row_ptr[v + 1] included) and
\* edge_list only at positions below rowPtr[numNodes]
C19_ReadsInBounds ==
    gpu = "pass" =>
        /\ Len(csr.rowPtr) = csr.numNodes + 1
        /\ Len(csr.edgeList) = At(csr.rowPtr, csr.numNodes)
        /\ \A u \in 0..(Len(tasks) - 1) :
               LET reads == StepReads(csr, u, tasks[u + 1])
               IN  /\ reads.rowPtr \subseteq 0..csr.numNodes
                   /\ reads.edgeList \subseteq 0..(At(csr.rowPtr, csr.numNodes) - 1)
C19_Witness ==
    /\ gpu = "pass"
    /\ runFile = <<K4File>>
    /\ tasks[3].pc = "loop"
    /\ tasks[3].i = 8
    /\ StepReads(csr, 2, tasks[3]) = [rowPtr |-> {3, 4}, edgeList |-> {8}]

====
